---- MODULE Spec2Model ----
(***************************************************************************)
(* The lint pass SemicolonIfNothingReturned of                             *)
(* clippy_lints/src/semicolon_if_nothing_returned.rs: check_block and its  *)
(* helper check_if_inside_block_on_same_line, run on one block of the HIR. *)
(*                                                                         *)
(* Source positions are line numbers (is_multiline only compares lines).   *)
(* Text is a sequence of one-character strings.                            *)
(***************************************************************************)
EXTENDS Integers, Sequences, FiniteSets

\* ----------------------------------------------------------------- bounds
\* Lines of the analysed file (and of a macro's definition).
MaxLine == 2
\* Longest source text of a trailing expression, in characters.
MaxLen == 2
\* Most statements a block holds before its trailing expression.
MaxStmts == 1

\* ------------------------------------------------------------ the HIR data
\* Option<T>: None is the empty sequence, Some(x) the sequence holding x.
None == <<>>
Some(x) == <<x>>

Lines == 1..MaxLine

\* Syntax contexts: 0 is the root (literal source), 1 and 2 are macro
\* expansions, 2 invoked inside the expansion 1.
Root == 0
Ctxts == {0, 1, 2}

Span == {s \in [lo : Lines, hi : Lines, ctxt : Ctxts] : s.lo <= s.hi}

\* ExprKind, as far as the pass tells the variants apart.
TailKinds == {"Call", "DropTemps"}
ParentKinds == {"Call", "Closure", "Block"}

\* Resolved types: the unit type, the never type, and one with a value.
Tys == {"unit", "never", "i32"}

BlockCheckModes == {"DefaultBlock", "UnsafeBlock"}

Expr == [kind : TailKinds, ty : Tys, span : Span]
ParentExpr == [kind : ParentKinds, span : Span]

SrcChars == {"f", "}"}
Text == UNION {[1..n -> SrcChars] : n \in 1..MaxLen}

StmtSeqs == UNION {[1..n -> {"stmt"}] : n \in 0..MaxStmts}

VARIABLES
    block,      \* the Block handed to check_block: span, rules, stmts, expr
    parent,     \* the HIR map's parent expression of the block, if any
    src,        \* source text at the trailing expression's call site, if any
    same_line,  \* what check_if_inside_block_on_same_line returned, if called
    diags,      \* the diagnostics handed to span_lint_and_sugg, in order
    pc          \* "start", "checked", "fixed", "rechecked"

vars == <<block, parent, src, same_line, diags, pc>>

\* ------------------------------------------------------------- rustc spans
Min(a, b) == IF a <= b THEN a ELSE b
Max(a, b) == IF a >= b THEN a ELSE b
Last(s) == s[Len(s)]

\* ExpnData::call_site of an expansion: where the macro was invoked.
call_site(c) == [lo |-> 1, hi |-> 1, ctxt |-> c - 1]

\* Span::source_callsite: walk the expansions up to literal source.
RECURSIVE source_callsite(_)
source_callsite(sp) ==
    IF sp.ctxt # Root THEN source_callsite(call_site(sp.ctxt)) ELSE sp

\* Span::to: the span enclosing both; with one span from a macro and the
\* other from literal source, the macro span alone.
to(self, end) ==
    IF self.ctxt # end.ctxt /\ self.ctxt = Root THEN end
    ELSE IF self.ctxt # end.ctxt /\ end.ctxt = Root THEN self
    ELSE [lo |-> Min(self.lo, end.lo),
          hi |-> Max(self.hi, end.hi),
          ctxt |-> IF self.ctxt = Root THEN end.ctxt ELSE self.ctxt]

\* SourceMap::is_multiline
is_multiline(sp) == sp.lo # sp.hi

\* ----------------------------------------------------------- clippy_utils
in_macro(sp) == sp.ctxt # Root

\* snippet_with_macro_callsite(cx, span, default): the text at the span's
\* call site, or the default when the source map has none.
snippet_with_macro_callsite(text, default) ==
    IF text = None THEN default ELSE text[1]

\* Sugg::hir_with_macro_callsite(cx, expr, default), displayed.
hir_with_macro_callsite(text, default) ==
    snippet_with_macro_callsite(text, default)

\* str::ends_with(char)
ends_with(s, c) == Len(s) > 0 /\ Last(s) = c

\* get_parent_expr_for_hir(cx, block.hir_id)
get_parent_expr_for_hir(p) == p

\* -------------------------------------- check_if_inside_block_on_same_line
\* if let Some(parent) = get_parent_expr_for_hir(cx, block.hir_id)
has_parent(p) == get_parent_expr_for_hir(p) # None

\* Mutant: the two triggers joined by "and" instead of "or".
rules_and_parent_kind(b, par) ==
    b.rules # "DefaultBlock" /\ par.kind \in {"Closure", "Block"}

\* !matches!(block.rules, DefaultBlock) ||
\* matches!(parent.kind, ExprKind::Closure(..) | ExprKind::Block(..))
rules_or_parent_kind(b, par) ==
    b.rules # "DefaultBlock" \/ par.kind \in {"Closure", "Block"}

\* block.stmts.is_empty()
stmts_is_empty(b) == Len(b.stmts) = 0

\* Mutant: the joined span runs from the parent's start to the trailing
\* expression's end instead of enclosing both.
on_one_line_start_to_end(par, last_expr) ==
    ~is_multiline([lo |-> par.span.lo, hi |-> last_expr.span.hi,
                   ctxt |-> par.span.ctxt])

\* !source_map.is_multiline(parent.span.to(last_expr.span))
on_one_line(par, last_expr) == ~is_multiline(to(par.span, last_expr.span))

check_if_inside_block_on_same_line(b, p, last_expr) ==
    IF has_parent(p)
    THEN LET par == get_parent_expr_for_hir(p)[1] IN
         IF rules_or_parent_kind(b, par) /\ stmts_is_empty(b)
         THEN on_one_line(par, last_expr)
         ELSE FALSE
    ELSE FALSE

\* ------------------------------------------------------------- check_block
\* Mutant: the macro test reads the trailing expression's span.
tail_not_in_macro(b) ==
    IF b.expr = None THEN TRUE ELSE ~in_macro(b.expr[1].span)

\* !in_macro(block.span)
block_not_in_macro(b) == ~in_macro(b.span)

\* Mutant: a block without a trailing expression is checked on its last
\* statement.
block_expr_or_last_stmt(b) ==
    IF b.expr = None /\ Len(b.stmts) > 0
    THEN Some([kind |-> "Call", ty |-> "unit", span |-> b.span])
    ELSE b.expr

\* if let Some(expr) = block.expr
block_expr(b) == b.expr

\* Mutant: the never type is taken for the unit type.
is_unit_or_never(e) == e.ty \in {"unit", "never"}

\* cx.typeck_results().expr_ty(expr).is_unit()
is_unit(e) == e.ty = "unit"

\* Mutant: the snippet's default is the suggestion's "..".
snippet_default_dots(text) == snippet_with_macro_callsite(text, <<".", ".">>)

\* snippet_with_macro_callsite(cx, expr.span, "}")
snippet(text) == snippet_with_macro_callsite(text, <<"}">>)

\* Mutant: the brace is looked for at the start of the snippet.
snippet_not_opened(text) ==
    ~(snippet_with_macro_callsite(text, <<"}">>)[1] = "}")

\* Mutant: the brace filter is left out.
snippet_filter_skipped(text) == TRUE

\* !snippet.ends_with('}')
snippet_not_closed(text) == ~ends_with(snippet(text), "}")

\* if let ExprKind::DropTemps(..) = &expr.kind { return; }
is_drop_temps(e) == e.kind = "DropTemps"

\* Mutant: the suggestion is formatted without the ";".
suggestion_without_semicolon(text) ==
    hir_with_macro_callsite(text, <<".", ".">>)

\* format!("{0};", Sugg::hir_with_macro_callsite(cx, expr, ".."))
suggestion(text) == hir_with_macro_callsite(text, <<".", ".">>) \o <<";">>

\* expr.span.source_callsite()
lint_span(e) == source_callsite(e.span)

\* The arguments of span_lint_and_sugg (the messages without their backquotes).
diagnostic(e, text) ==
    [lint |-> "SEMICOLON_IF_NOTHING_RETURNED",
     span |-> lint_span(e),
     msg |-> "consider adding a ; to the last statement for consistent formatting",
     help |-> "add a ; here",
     sugg |-> suggestion(text),
     applicability |-> "MaybeIncorrect"]

\* The if_chain! up to the call of the helper: lines 44 to 49.
before_helper(b, text) ==
    /\ block_not_in_macro(b)
    /\ block_expr(b) # None
    /\ is_unit(block_expr(b)[1])
    /\ snippet_not_closed(text)

\* Whether check_block calls the helper, and what it then returns.
helper_result(b, p, text) ==
    IF before_helper(b, text)
    THEN Some(check_if_inside_block_on_same_line(b, p, block_expr(b)[1]))
    ELSE None

\* check_block: the diagnostics it hands to the sink (none or one).
check_block(b, p, text) ==
    IF before_helper(b, text)
    THEN LET e == block_expr(b)[1] IN
         IF check_if_inside_block_on_same_line(b, p, e) THEN <<>>
         ELSE IF is_drop_temps(e) THEN <<>>
         ELSE <<diagnostic(e, text)>>
    ELSE <<>>

\* ---------------------------------------------------------- the state machine
\* A parent expression in the same syntax context encloses the trailing
\* expression of the block it holds.
Encloses(outer, inner) ==
    outer.ctxt = inner.ctxt => outer.lo <= inner.lo /\ inner.hi <= outer.hi

\* The block's own span: only its syntax context is read. It is placed on
\* the lines of its trailing expression when both are in one context.
BlockSpan(e, c) ==
    IF e # None /\ e[1].span.ctxt = c
    THEN e[1].span
    ELSE [lo |-> 1, hi |-> 1, ctxt |-> c]

Init ==
    /\ \E e \in {None} \cup {Some(x) : x \in Expr} :
       \E c \in Ctxts, r \in BlockCheckModes, ss \in StmtSeqs :
          block = [span |-> BlockSpan(e, c), rules |-> r, stmts |-> ss, expr |-> e]
    /\ parent \in {None} \cup {Some(x) : x \in ParentExpr}
    /\ block.expr # None /\ parent # None
          => Encloses(parent[1].span, block.expr[1].span)
    /\ src \in {None} \cup {Some(t) : t \in Text}
    /\ same_line = None
    /\ diags = <<>>
    /\ pc = "start"

\* The framework's traversal calls check_block on the block.
CheckBlock ==
    /\ pc \in {"start", "fixed"}
    /\ same_line' = helper_result(block, parent, src)
    /\ diags' = diags \o check_block(block, parent, src)
    /\ pc' = IF pc = "start" THEN "checked" ELSE "rechecked"
    /\ UNCHANGED <<block, parent, src>>

\* The suggestion is applied: the text at the diagnostic's span is replaced
\* by the suggestion, so the trailing expression becomes the block's last
\* statement and the block has no trailing expression.
ApplyFix ==
    /\ pc = "checked"
    /\ Len(diags) = 1
    /\ block' = [block EXCEPT !.stmts = Append(@, "stmt"), !.expr = None]
    /\ src' = Some(diags[1].sugg)
    /\ pc' = "fixed"
    /\ UNCHANGED <<parent, same_line, diags>>

Next == CheckBlock \/ ApplyFix

Spec == Init /\ [][Next]_vars

\* ------------------------------------------------------------------ claims
\* The inputs of the state, read directly (not through the operators above).
HasTail == block.expr # None
TailExpr == block.expr[1]
BlockLiteral == block.span.ctxt = Root
HasText == src # None
Rendered == IF src = None THEN <<"}">> ELSE src[1]
EndsInBrace == Rendered[Len(Rendered)] = "}"

\* Every filter of check_block passes.
PassesAll ==
    /\ BlockLiteral
    /\ HasTail
    /\ TailExpr.ty = "unit"
    /\ ~EndsInBrace
    /\ ~check_if_inside_block_on_same_line(block, parent, TailExpr)
    /\ TailExpr.kind # "DropTemps"

\* The call-site span of the trailing expression: a span of literal source,
\* the expression's own when it is literal, else the place of a macro
\* invocation on its expansion chain.
IsCallSiteOf(sp, e) ==
    /\ sp.ctxt = Root
    /\ e.span.ctxt = Root => sp = e.span
    /\ e.span.ctxt # Root =>
          \E c \in Ctxts \ {Root} : c <= e.span.ctxt /\ sp = call_site(c)

\* C1: a block that passes every filter of check_block gets exactly one
\* diagnostic and every other block none; the replacement is the rendered
\* snippet followed by ";", the primary span is the trailing expression's
\* call-site span, and the applicability is MaybeIncorrect.
C1_EmitExactlyWhenAllFiltersPass ==
    pc = "checked" =>
        /\ Len(diags) = (IF PassesAll THEN 1 ELSE 0)
        /\ PassesAll =>
              /\ diags[1].sugg = Rendered \o <<";">>
              /\ IsCallSiteOf(diags[1].span, TailExpr)
              /\ diags[1].applicability = "MaybeIncorrect"

\* A literal function body (no parent expression) whose trailing expression
\* is a macro invocation, as in fn main() { println!("hi") }: one diagnostic.
C1_Witness ==
    /\ pc = "checked"
    /\ parent = None
    /\ BlockLiteral
    /\ HasTail
    /\ TailExpr.span.ctxt # Root
    /\ Len(diags) = 1

\* C2: a block whose trailing expression has a non-unit type gets no
\* diagnostic, whatever its other attributes.
C2_NonUnitNeverLinted ==
    pc = "checked" /\ HasTail /\ TailExpr.ty # "unit" => diags = <<>>

\* A never-typed tail that passes every other filter.
C2_Witness ==
    /\ pc = "checked"
    /\ HasTail
    /\ TailExpr.ty = "never"
    /\ TailExpr.kind = "Call"
    /\ BlockLiteral
    /\ HasText
    /\ ~EndsInBrace
    /\ parent = None
    /\ diags = <<>>

\* C3: a block with no trailing expression gets no diagnostic: a diagnostic
\* is only made for a block that has a trailing expression.
C3_NoTailNeverLinted ==
    pc = "checked" /\ diags # <<>> => HasTail

\* A literal statement-only block whose text does not end in a brace.
C3_Witness ==
    /\ pc = "checked"
    /\ ~HasTail
    /\ Len(block.stmts) > 0
    /\ BlockLiteral
    /\ HasText
    /\ ~EndsInBrace
    /\ diags = <<>>

\* C4: a block whose rendered trailing-expression snippet ends in "}" gets
\* no diagnostic, regardless of the trailing expression's type.
C4_BraceSuffixNeverLinted ==
    pc = "checked" /\ HasTail /\ HasText /\ EndsInBrace => diags = <<>>

\* A unit-typed tail with the text "f}" that passes every other filter.
C4_Witness ==
    /\ pc = "checked"
    /\ HasTail
    /\ TailExpr.ty = "unit"
    /\ TailExpr.kind = "Call"
    /\ BlockLiteral
    /\ src = Some(<<"f", "}">>)
    /\ parent = None
    /\ diags = <<>>

\* C5: a block whose trailing expression is entirely macro-generated (its
\* span comes from an expansion and there is no literal source text for it)
\* gets no diagnostic.
C5_MacroGeneratedTailNeverLinted ==
    pc = "checked" /\ HasTail /\ TailExpr.span.ctxt # Root /\ ~HasText
        => diags = <<>>

\* Such a tail in a literal block, passing every other filter.
C5_Witness ==
    /\ pc = "checked"
    /\ HasTail
    /\ TailExpr.span.ctxt # Root
    /\ ~HasText
    /\ TailExpr.ty = "unit"
    /\ TailExpr.kind = "Call"
    /\ BlockLiteral
    /\ parent = None
    /\ diags = <<>>

\* C6: a block whose own span comes from a macro expansion gets no
\* diagnostic; the test reads the block's span, not the trailing
\* expression's, so a literal block whose trailing expression is a macro
\* invocation is linted when the other filters pass.
C6_BlockSpanDecidesMacroFilter ==
    pc = "checked" =>
        /\ ~BlockLiteral => diags = <<>>
        /\ (/\ BlockLiteral
            /\ HasTail
            /\ TailExpr.span.ctxt # Root
            /\ TailExpr.ty = "unit"
            /\ ~EndsInBrace
            /\ ~check_if_inside_block_on_same_line(block, parent, TailExpr)
            /\ TailExpr.kind # "DropTemps") => Len(diags) = 1

\* A macro-generated block around a literal tail that passes every other
\* filter.
C6_Witness ==
    /\ pc = "checked"
    /\ ~BlockLiteral
    /\ HasTail
    /\ TailExpr.span.ctxt = Root
    /\ TailExpr.ty = "unit"
    /\ TailExpr.kind = "Call"
    /\ HasText
    /\ ~EndsInBrace
    /\ parent = None
    /\ diags = <<>>

\* The block { foo() } as the body of a closure, all in literal source:
\* no statements, a unit-typed call whose text does not end in a brace.
ClosureBody ==
    /\ parent # None
    /\ parent[1].kind = "Closure"
    /\ parent[1].span.ctxt = Root
    /\ BlockLiteral
    /\ Len(block.stmts) = 0
    /\ HasTail
    /\ TailExpr.span.ctxt = Root
    /\ TailExpr.ty = "unit"
    /\ TailExpr.kind = "Call"
    /\ HasText
    /\ ~EndsInBrace

\* C7 as stated: for a closure body { foo() }, no diagnostic when the
\* closure's start through the trailing expression lies on one line, and a
\* diagnostic when it does not.
C7_Original ==
    pc = "checked" /\ ClosureBody =>
        /\ parent[1].span.lo = TailExpr.span.hi => diags = <<>>
        /\ parent[1].span.lo # TailExpr.span.hi => Len(diags) = 1

\* C7, amended: for a closure body { foo() }, no diagnostic when the whole
\* closure expression, through its end, lies on one line, and a diagnostic
\* when the closure expression spans more than one line.
C7_ClosureOnOneLine ==
    pc = "checked" /\ ClosureBody =>
        /\ parent[1].span.lo = parent[1].span.hi => diags = <<>>
        /\ parent[1].span.lo # parent[1].span.hi => Len(diags) = 1

\* The closure opens on line 1 and foo() is on line 2: a diagnostic.
C7_Witness ==
    /\ pc = "checked"
    /\ ClosureBody
    /\ parent[1].span.lo = 1
    /\ TailExpr.span.lo = 2
    /\ Len(diags) = 1

\* C8: after the suggestion is applied to a block that was linted, running
\* check_block again gives no second diagnostic.
C8_FixIsIdempotent ==
    pc = "rechecked" => Len(diags) = 1 /\ same_line = None

\* A linted block, fixed and checked again.
C8_Witness ==
    /\ pc = "rechecked"
    /\ ~HasTail
    /\ Len(block.stmts) > 0
    /\ HasText
    /\ Rendered[Len(Rendered)] = ";"

\* The other conditions of the helper, as C9 lists them.
C9_Qualifies ==
    /\ parent # None
    /\ block.rules # "DefaultBlock" \/ parent[1].kind \in {"Closure", "Block"}
    /\ Len(block.stmts) = 0

\* C9 as stated, on literal source: the helper returns true exactly when the
\* block has a parent expression, is not a default block or has a closure or
\* block parent, has no statements, and the parent's start and the trailing
\* expression's end are on one line.
C9_Original ==
    (/\ pc = "checked"
     /\ same_line # None
     /\ parent # None => parent[1].span.ctxt = Root /\ TailExpr.span.ctxt = Root)
        => same_line[1] = (C9_Qualifies /\ parent[1].span.lo = TailExpr.span.hi)

\* The span parent.span.to(last_expr.span) lies on one line: the span from
\* the earlier start to the later end of the two, or, when exactly one of
\* them comes from a macro expansion, that one alone.
C9_JoinOnOneLine ==
    LET p == parent[1].span
        e == TailExpr.span
    IN  IF p.ctxt # e.ctxt /\ p.ctxt = Root THEN e.lo = e.hi
        ELSE IF p.ctxt # e.ctxt /\ e.ctxt = Root THEN p.lo = p.hi
        ELSE \A l \in {p.lo, p.hi, e.lo, e.hi} : l = p.lo

\* C9, amended: the helper returns true exactly when the block has a parent
\* expression, is not a default block or has a closure or block parent, has
\* no statements, and the span enclosing the parent and the trailing
\* expression lies on one line; in every other case it returns false.
C9_SameLineExactly ==
    pc = "checked" /\ same_line # None
        => same_line[1] = (C9_Qualifies /\ C9_JoinOnOneLine)

\* An unsafe block under a parent that is neither closure nor block, on one
\* line and without statements, is suppressed.
C9_Witness ==
    /\ pc = "checked"
    /\ same_line = Some(TRUE)
    /\ block.rules = "UnsafeBlock"
    /\ parent[1].kind = "Call"
    /\ diags = <<>>

\* C10: with no source text at the trailing expression's call site the
\* rendered snippet is the placeholder "}", the block gets no diagnostic, no
\* placeholder appears in a replacement, and check_block still completes.
C10_PlaceholderNeverSuggested ==
    /\ pc = "start" => ENABLED CheckBlock
    /\ pc = "checked" /\ ~HasText => diags = <<>>
    /\ \A i \in 1..Len(diags) :
          diags[i].sugg \notin {<<"}", ";">>, <<".", ".", ";">>}

\* A literal unit-typed tail without source text, passing every other filter.
C10_Witness ==
    /\ pc = "checked"
    /\ ~HasText
    /\ HasTail
    /\ TailExpr.span.ctxt = Root
    /\ TailExpr.ty = "unit"
    /\ TailExpr.kind = "Call"
    /\ BlockLiteral
    /\ parent = None
    /\ diags = <<>>

====
